---- MODULE Spec2Model ----
(***************************************************************************)
(* fastlogger: a size-rotating, level-filtering file logger                *)
(* (server/fastlogger/src/lib.rs).                                         *)
(*                                                                         *)
(* The filesystem is a function from a file index to a file: index 0 is    *)
(* the active file at `path`, index i >= 1 is the backup `path.i`.  A file *)
(* is the sequence of records appended to it; its size in bytes is the sum *)
(* of the formatted lengths of its records.  Level strings are sequences   *)
(* of one-character strings so that to_uppercase works character by        *)
(* character.                                                              *)
(*                                                                         *)
(* Spec      one writer, no filesystem failure: rotation and appending.    *)
(* SpecLevel one writer, every pair of level strings: the level filter.    *)
(* SpecFail  one writer, one filesystem step of a call may fail.           *)
(* SpecScenario  the 80-byte scenario of the specification's section 8.    *)
(* SpecConc  two write calls running concurrently, one filesystem step at  *)
(*           a time, after a sequential prefix of writes.                  *)
(***************************************************************************)
EXTENDS Integers, Sequences, FiniteSets, TLC

\* ------------------------------------------------------------------ bounds
MaxCalls == 4          \* calls made in one behaviour of Spec
MaxBackupCount == 3    \* largest backup_count the constructor is given
MaxLevelCalls == 2     \* calls made in one behaviour of SpecLevel
MaxFaultCalls == 3     \* calls made in one behaviour of SpecFail
MaxScenarioCalls == 3  \* calls made in one behaviour of SpecScenario
MaxSeed == 3           \* lines written before the two concurrent calls start

\* ------------------------------------------------------- program constants
TsLen == 19            \* "%Y-%m-%d %H:%M:%S"
SepLen == 3            \* " | "
NlLen == 1             \* "\n"

DEBUG == 0
INFO == 1
WARNING == 2
ERROR == 3

\* ---------------------------------------------------------------- inputs
LowerSeq == <<"a","b","c","d","e","f","g","h","i","j","k","l","m",
              "n","o","p","q","r","s","t","u","v","w","x","y","z">>
UpperSeq == <<"A","B","C","D","E","F","G","H","I","J","K","L","M",
              "N","O","P","Q","R","S","T","U","V","W","X","Y","Z">>

\* level strings: the four names in several spellings, near misses and
\* strings that are no level name at all
LevelStrings == { <<"D","E","B","U","G">>, <<"d","e","b","u","g">>,
                  <<"I","N","F","O">>, <<"i","n","F","o">>,
                  <<"W","A","R","N","I","N","G">>, <<"W","a","r","n","i","n","g">>,
                  <<"E","R","R","O","R">>, <<"e","r","r","o","r">>,
                  <<"T","R","A","C","E">>, <<"w","a","r","n">>,
                  <<"E","R","R","O","R"," ">>, <<>> }
\* the level strings of Spec and SpecFail
CtorLevels == { <<"d","e","b","u","g">>, <<"W","a","r","n","i","n","g">> }
WriteLevels == { <<"T","R","A","C","E">> }
Msgs == { "m", "a | b" }
Names == { "app" }
\* a message of 44 bytes: with the name "app" and the level INFO its
\* formatted line is 80 bytes long
Msg44 == "0123456789012345678901234567890123456789abcd"
\* rotation thresholds: 0, the length of one ERROR line, more than two lines
MaxBytesChoices == { 0, 38, 80 }

\* the highest backup index the model tracks (one above the largest count)
FsMax == MaxBackupCount + 1
\* a file: whether it exists, and the records appended to it
Absent == [ex |-> FALSE, data |-> <<>>]
File(content) == [ex |-> TRUE, data |-> content]
\* the None of an Option<u64>
None == -1
NoFiles == [i \in 0..FsMax |-> Absent]

VARIABLES name, max_bytes, backup_count, show_output, level, level_arg,
          fs, stdout, calls, seq, last, rotations, first_rot, faulted, log, wr

vars == <<name, max_bytes, backup_count, show_output, level, level_arg,
          fs, stdout, calls, seq, last, rotations, first_rot, faulted, log, wr>>

config == <<name, max_bytes, backup_count, show_output, level, level_arg>>

\* ------------------------------------------------------------- LogLevel
to_upper_char(c) ==
    IF \E k \in 1..Len(LowerSeq) : LowerSeq[k] = c
    THEN UpperSeq[CHOOSE k \in 1..Len(LowerSeq) : LowerSeq[k] = c]
    ELSE c

\* forgets to fold the case
to_uppercase_exact(s) == s

to_uppercase(s) == [k \in 1..Len(s) |-> to_upper_char(s[k])]

from_str(s) ==
    LET u == to_uppercase(s) IN
    CASE u = <<"D","E","B","U","G">> -> DEBUG
      [] u = <<"I","N","F","O">> -> INFO
      [] u = <<"W","A","R","N","I","N","G">> -> WARNING
      [] u = <<"E","R","R","O","R">> -> ERROR
      [] OTHER -> INFO

\* ------------------------------------------------------------ filesystem
\* formatted length of one record: "{ts} | {level} | {name} | {msg}\n"
LineLen(rec) ==
    TsLen + SepLen + Len(rec.level) + SepLen + Len(rec.name) + SepLen
          + Len(rec.msg) + NlLen

RECURSIVE FileLen(_)
FileLen(content) ==
    IF content = <<>> THEN 0
    ELSE LineLen(Head(content)) + FileLen(Tail(content))

\* std::fs::metadata(path).ok(): the length, or None when the file is
\* missing or the query fails
metadata(f, ok) ==
    IF ok /\ f[0].ex THEN FileLen(f[0].data) ELSE None

exists(f, i) == f[i].ex

\* copies o to n and leaves o in place
rename_copy(f, o, n, ok) ==
    IF ok /\ f[o].ex THEN [f EXCEPT ![n] = f[o]] ELSE f

\* std::fs::rename(o, n).ok(): replaces n by o; an error leaves both alone
rename(f, o, n, ok) ==
    IF ok /\ f[o].ex
    THEN [f EXCEPT ![n] = f[o], ![o] = Absent]
    ELSE f

\* walks the backups upwards: 1, 2, ..., count-1
rev_range_ascending(count) ==
    [k \in 1..(IF count > 1 THEN count - 1 ELSE 0) |-> k]

\* an inclusive range: count, count-1, ..., 1
rev_range_inclusive(count) == [k \in 1..count |-> count + 1 - k]

\* (1..count).rev(): count-1, count-2, ..., 1
rev_range(count) ==
    [k \in 1..(IF count > 1 THEN count - 1 ELSE 0) |-> count - k]

RECURSIVE shift(_, _, _)
shift(f, idxs, failing) ==
    IF idxs = <<>> THEN f
    ELSE LET i == Head(idxs) IN
         shift(IF exists(f, i) THEN rename(f, i, i + 1, i \notin failing) ELSE f,
               Tail(idxs), failing)

\* rotates every existing file, whatever its size
over_max_strict(m, max) == m # None /\ m > max

over_max_always(m, max) == m # None

\* the size test of rotate
over_max(m, max) == m # None /\ m >= max

rotate(f, max, count, F) ==
    IF over_max(metadata(f, F.meta), max)
    THEN rename(shift(f, rev_range(count), F.ren), 0, 1, 0 \notin F.ren)
    ELSE f

\* opens with truncate instead of append
open_truncate(f) == [f EXCEPT ![0] = File(<<>>)]

\* OpenOptions::new().create(true).append(true).open(path)
open_append(f) == IF f[0].ex THEN f ELSE [f EXCEPT ![0] = File(<<>>)]

\* f.write_all(line).ok()
write_all(f, line, ok) ==
    IF ok THEN [f EXCEPT ![0] = File(Append(f[0].data, line))] ELSE f

\* prints whether or not show_output is set
print_always(out, line, show) == Append(out, line)

\* if self.show_output { print!("{}", line) }
print_line(out, line, show) == IF show THEN Append(out, line) ELSE out

\* writes the normalized level name instead of the caller's string
format_line_normalized(level_str, msg) ==
    [level |-> CASE from_str(level_str) = DEBUG -> <<"D","E","B","U","G">>
                 [] from_str(level_str) = WARNING -> <<"W","A","R","N","I","N","G">>
                 [] from_str(level_str) = ERROR -> <<"E","R","R","O","R">>
                 [] OTHER -> <<"I","N","F","O">>,
     name |-> name, msg |-> msg, n |-> seq + 1]

format_line(level_str, msg) ==
    [level |-> level_str, name |-> name, msg |-> msg, n |-> seq + 1]

\* the comparison the wrong way round
should_return_inverted(level_str) == from_str(level_str) > level

should_return(level_str) == from_str(level_str) < level

\* ---------------------------------------------------------------- faults
NoFault == [meta |-> TRUE, ren |-> {}, open |-> TRUE, append |-> TRUE]
\* at most one step of a call fails: the metadata query, the rename of
\* file i, the open or the append
Faults == { NoFault, [NoFault EXCEPT !.meta = FALSE],
            [NoFault EXCEPT !.open = FALSE], [NoFault EXCEPT !.append = FALSE] }
          \cup { [NoFault EXCEPT !.ren = {i}] : i \in 0..MaxBackupCount }

\* --------------------------------------------------------------- Logger
\* the two concurrent calls of SpecConc, and a call that has not started:
\* pc is the step the call is at, m the size it read, idxs the backup
\* indices its loop has still to visit, h the index at which the file it
\* holds open is now (-1: no file, or one that has been replaced); saw is
\* the file it found oversized, renamed whether it has done its rename of
\* the active file, raced whether the other call renamed the active file
\* between this call's size check and its open
Writers == {1, 2}
Idle == [pc |-> "idle", level_str |-> <<>>, msg |-> "", m |-> None,
         idxs |-> <<>>, h |-> -1, saw |-> Absent, over |-> FALSE,
         renamed |-> FALSE, raced |-> FALSE, line |-> <<>>]

NoCall == [method |-> "none", level_str |-> <<>>, msg |-> "", pre |-> NoFiles,
           mid |-> NoFiles, outcome |-> "none", faults |-> NoFault]

new(n, max, count, show, lvl) ==
    /\ name = n
    /\ max_bytes = max
    /\ backup_count = count
    /\ show_output = show
    /\ level = from_str(lvl)
    /\ level_arg = lvl

Start(names, maxes, counts, shows, lvls) ==
    /\ \E n \in names, max \in maxes, count \in counts, show \in shows,
          lvl \in lvls : new(n, max, count, show, lvl)
    /\ fs = NoFiles
    /\ stdout = <<>>
    /\ calls = 0
    /\ seq = 0
    /\ last = NoCall
    /\ rotations = 0
    /\ first_rot = Absent
    /\ faulted = FALSE
    /\ log = <<>>
    /\ wr = [w \in Writers |-> Idle]

Init == Start(Names, MaxBytesChoices, 0..MaxBackupCount, {FALSE}, CtorLevels)

\* the whole of Logger::write, called through `method`, under faults F
write(method, level_str, msg, F, bound) ==
    /\ calls < bound
    /\ calls' = calls + 1
    /\ UNCHANGED config
    /\ faulted' = (faulted \/ F # NoFault)
    /\ UNCHANGED wr
    /\ IF should_return(level_str)
       THEN /\ UNCHANGED <<fs, stdout, seq, rotations, first_rot, log>>
            /\ last' = [method |-> method, level_str |-> level_str,
                        msg |-> msg, pre |-> fs, mid |-> fs,
                        outcome |-> "suppressed", faults |-> F]
       ELSE LET rotated == rotate(fs, max_bytes, backup_count, F)
                line == format_line(level_str, msg)
                did_rotate == rotated # fs
            IN  /\ log' = Append(log, line)
                /\ rotations' = IF did_rotate THEN rotations + 1 ELSE rotations
                /\ first_rot' = IF did_rotate /\ rotations = 0
                                THEN fs[0] ELSE first_rot
                /\ IF F.open
                   THEN /\ fs' = write_all(open_append(rotated), line, F.append)
                        /\ stdout' = print_line(stdout, line, show_output)
                        /\ seq' = seq + 1
                        /\ last' = [method |-> method, level_str |-> level_str,
                                    msg |-> msg, pre |-> fs, mid |-> rotated,
                                    outcome |-> "returned", faults |-> F]
                   ELSE /\ fs' = rotated
                        /\ UNCHANGED <<stdout, seq>>
                        /\ last' = [method |-> method, level_str |-> level_str,
                                    msg |-> msg, pre |-> fs, mid |-> rotated,
                                    outcome |-> "panic", faults |-> F]

info(m, F, bound) == write("info", <<"I","N","F","O">>, m, F, bound)
error(m, F, bound) == write("error", <<"E","R","R","O","R">>, m, F, bound)
warning(m, F, bound) == write("warning", <<"W","A","R","N","I","N","G">>, m, F, bound)
debug(m, F, bound) == write("debug", <<"D","E","B","U","G">>, m, F, bound)

\* ------------------------------------------- single writer, no failures
Write == \E l \in WriteLevels, m \in Msgs : write("write", l, m, NoFault, MaxCalls)
Info == info("m", NoFault, MaxCalls)
Error == error("m", NoFault, MaxCalls)
Warning == warning("m", NoFault, MaxCalls)
Debug == debug("m", NoFault, MaxCalls)

Next == Write \/ Info \/ Error \/ Warning \/ Debug

Spec == Init /\ [][Next]_vars

\* ------------------------------------ level filtering over all level strings
InitLevel == Start(Names, {0}, {1}, BOOLEAN, LevelStrings)

WriteLevel == \E l \in LevelStrings, m \in Msgs : write("write", l, m, NoFault, MaxLevelCalls)
InfoLevel == \E m \in Msgs : info(m, NoFault, MaxLevelCalls)
ErrorLevel == \E m \in Msgs : error(m, NoFault, MaxLevelCalls)
WarningLevel == \E m \in Msgs : warning(m, NoFault, MaxLevelCalls)
DebugLevel == \E m \in Msgs : debug(m, NoFault, MaxLevelCalls)

NextLevel == WriteLevel \/ InfoLevel \/ ErrorLevel \/ WarningLevel \/ DebugLevel

SpecLevel == InitLevel /\ [][NextLevel]_vars

\* --------------------------- single writer, one filesystem step may fail
InitFail == Start(Names, {0, 38}, 0..MaxBackupCount, BOOLEAN, {<<"d","e","b","u","g">>})

WriteFail == \E F \in Faults : write("write", <<"e","r","r","o","r">>, "m", F, MaxFaultCalls)
InfoFail == info("m", NoFault, MaxFaultCalls)
ErrorFail == error("m", NoFault, MaxFaultCalls)
WarningFail == warning("m", NoFault, MaxFaultCalls)
DebugFail == debug("m", NoFault, MaxFaultCalls)

NextFail == WriteFail \/ InfoFail \/ ErrorFail \/ WarningFail \/ DebugFail

SpecFail == InitFail /\ [][NextFail]_vars

\* ------------- the 80-byte scenario: maxBytes 100, backupCount 2, INFO
InitScenario == Start(Names, {100}, {2}, {FALSE}, {<<"I","N","F","O">>})

WriteScenario == \E l \in WriteLevels, m \in {"m", Msg44} :
                     write("write", l, m, NoFault, MaxScenarioCalls)
InfoScenario == \E m \in {"m", Msg44} : info(m, NoFault, MaxScenarioCalls)
ErrorScenario == error("m", NoFault, MaxScenarioCalls)
WarningScenario == warning("m", NoFault, MaxScenarioCalls)
DebugScenario == debug("m", NoFault, MaxScenarioCalls)

NextScenario == \/ WriteScenario \/ InfoScenario \/ ErrorScenario
                \/ WarningScenario \/ DebugScenario

SpecScenario == InitScenario /\ [][NextScenario]_vars

\* ---------------------- two concurrent calls, one filesystem step each
\* the files left by k sequential accepted writes of the message msg at
\* level "error"
seed_line(k, msg) ==
    [level |-> <<"e","r","r","o","r">>, name |-> "app", msg |-> msg, n |-> k]

RECURSIVE seed(_, _, _, _)
seed(k, msg, max, count) ==
    IF k = 0 THEN NoFiles
    ELSE write_all(open_append(rotate(seed(k - 1, msg, max, count),
                                      max, count, NoFault)),
                   seed_line(k, msg), TRUE)

InitConc ==
    /\ \E max \in {0, 38}, count \in 0..MaxBackupCount, lvl \in CtorLevels,
          k \in 0..MaxSeed, msg \in {"", "m"} :
          /\ new("app", max, count, FALSE, lvl)
          /\ fs = seed(k, msg, max, count)
          /\ seq = k
          /\ log = [j \in 1..k |-> seed_line(j, msg)]
    /\ stdout = <<>>
    /\ calls = 0
    /\ last = NoCall
    /\ rotations = 0
    /\ first_rot = Absent
    /\ faulted = FALSE
    /\ wr = [w \in Writers |-> Idle]

\* where an open file is after rename(o, n): it moves with its file, and
\* a file that is renamed over is no longer under any name
moved(h, f, o, n) ==
    IF ~f[o].ex THEN h
    ELSE IF h = o THEN n
    ELSE IF h = n THEN -1
    ELSE h

\* the append of a call that holds its file open at index h
append_at(f, h, line) ==
    IF h >= 0 THEN [f EXCEPT ![h] = File(Append(f[h].data, line))] ELSE f

ghosts == <<last, rotations, first_rot, faulted>>

\* write is called: the level filter (lib.rs:62-65)
Begin(w) ==
    /\ wr[w].pc = "idle"
    /\ \E l \in WriteLevels \cup {<<"e","r","r","o","r">>} :
          wr' = [wr EXCEPT ![w] = [@ EXCEPT
                    !.pc = IF should_return(l) THEN "suppressed" ELSE "stat",
                    !.level_str = l, !.msg = "m"]]
    /\ calls' = calls + 1
    /\ UNCHANGED <<config, fs, stdout, seq, log, ghosts>>

\* rotate reads the size (lib.rs:27-29)
Stat(w) ==
    /\ wr[w].pc = "stat"
    /\ LET m == metadata(fs, TRUE)
           idxs == rev_range(backup_count)
       IN  wr' = [wr EXCEPT ![w] = [@ EXCEPT
                    !.m = m,
                    !.over = over_max(m, max_bytes),
                    !.saw = IF over_max(m, max_bytes) THEN fs[0] ELSE Absent,
                    !.idxs = IF over_max(m, max_bytes) THEN idxs ELSE <<>>,
                    !.pc = IF ~over_max(m, max_bytes) THEN "open"
                           ELSE IF idxs = <<>> THEN "rename" ELSE "shift"]]
    /\ UNCHANGED <<config, fs, stdout, calls, seq, log, ghosts>>

\* one turn of the loop: path.i to path.(i+1) if path.i exists (lib.rs:30-36)
Shift(w) ==
    /\ wr[w].pc = "shift"
    /\ LET i == Head(wr[w].idxs)
           rest == Tail(wr[w].idxs)
       IN  /\ fs' = IF exists(fs, i) THEN rename(fs, i, i + 1, TRUE) ELSE fs
           /\ wr' = [v \in Writers |->
                       IF v = w
                       THEN [wr[v] EXCEPT !.idxs = rest,
                                          !.h = moved(@, fs, i, i + 1),
                                          !.pc = IF rest = <<>> THEN "rename"
                                                 ELSE "shift"]
                       ELSE [wr[v] EXCEPT !.h = moved(@, fs, i, i + 1)]]
    /\ UNCHANGED <<config, stdout, calls, seq, log, ghosts>>

\* path to path.1 (lib.rs:37-38)
Rename(w) ==
    /\ wr[w].pc = "rename"
    /\ fs' = rename(fs, 0, 1, TRUE)
    /\ wr' = [v \in Writers |->
                IF v = w
                THEN [wr[v] EXCEPT !.h = moved(@, fs, 0, 1), !.pc = "open",
                                   !.renamed = TRUE]
                ELSE [wr[v] EXCEPT !.h = moved(@, fs, 0, 1),
                                   !.raced = @ \/ (fs[0].ex /\ wr[v].pc \in
                                               {"shift", "rename", "open"})]]
    /\ UNCHANGED <<config, stdout, calls, seq, log, ghosts>>

\* the append-open, creating the file if it is absent (lib.rs:68)
Open(w) ==
    /\ wr[w].pc = "open"
    /\ fs' = open_append(fs)
    /\ wr' = [wr EXCEPT ![w] = [@ EXCEPT !.h = 0, !.pc = "append"]]
    /\ UNCHANGED <<config, stdout, calls, seq, log, ghosts>>

\* the line is formatted, appended to the open file and printed
\* (lib.rs:69-74)
AppendLine(w) ==
    /\ wr[w].pc = "append"
    /\ LET line == format_line(wr[w].level_str, wr[w].msg)
       IN  /\ fs' = append_at(fs, wr[w].h, line)
           /\ stdout' = print_line(stdout, line, show_output)
           /\ log' = Append(log, line)
           /\ wr' = [wr EXCEPT ![w] = [@ EXCEPT !.line = <<line>>,
                                                !.pc = "returned"]]
    /\ seq' = seq + 1
    /\ UNCHANGED <<config, calls, ghosts>>

NextConc ==
    \E w \in Writers :
        \/ Begin(w) \/ Stat(w) \/ Shift(w) \/ Rename(w) \/ Open(w)
        \/ AppendLine(w)

SpecConc == InitConc /\ [][NextConc]_vars

\* ================================================================ claims
\* the severity of a level string as the specification words it: a
\* case-insensitive match against the four names, anything else INFO
SameLetter(a, b) ==
    a = b \/ \E k \in 1..Len(LowerSeq) : {a, b} = {LowerSeq[k], UpperSeq[k]}

EqIgnoreCase(s, t) ==
    Len(s) = Len(t) /\ \A k \in 1..Len(s) : SameLetter(s[k], t[k])

Severity(s) ==
    IF EqIgnoreCase(s, <<"d","e","b","u","g">>) THEN 0
    ELSE IF EqIgnoreCase(s, <<"w","a","r","n","i","n","g">>) THEN 2
    ELSE IF EqIgnoreCase(s, <<"e","r","r","o","r">>) THEN 3
    ELSE 1

\* a step that is one call of write (or of a shorthand)
IsCall == calls' = calls + 1
Accepted == last'.outcome # "suppressed"
Returned == last'.outcome = "returned"
\* the active file is there and at or above the threshold before the call
Oversized == fs[0].ex /\ FileLen(fs[0].data) >= max_bytes
Backups == 1..FsMax

\* C1: a write whose normalized level is strictly below minLevel changes
\* nothing: no file is created, grown, renamed or removed and nothing is
\* printed, even when the active file is oversized and showOutput is set.
C1_SuppressedWriteChangesNothing ==
    [][(IsCall /\ Severity(last'.level_str) < Severity(level_arg))
         => (fs' = fs /\ stdout' = stdout)]_vars

C1_Witness ==
    /\ last.outcome = "suppressed"
    /\ show_output
    /\ fs[0].ex /\ FileLen(fs[0].data) >= max_bytes
    /\ Severity(last.level_str) < Severity(level_arg)

\* C2: a write is accepted iff the severity of its level string is >= the
\* severity of the constructor's level string, both matched
\* case-insensitively against the four names and otherwise INFO.
C2_AcceptedIffSeverityAtLeastMin ==
    [][IsCall => (Accepted <=> Severity(last'.level_str) >= Severity(level_arg))]_vars

C2_Witness ==
    /\ last.outcome = "returned"
    /\ last.level_str = <<"T","R","A","C","E">>
    /\ level_arg = <<"w","a","r","n">>

\* C3: an accepted write without failure appends exactly one record to the
\* active file: the file is its content after the rotation step followed by
\* one record carrying the message and the logger's name, and no backup
\* holds anything that was not in a file before the call.
C3_ExactlyOneLineAppended ==
    [][(IsCall /\ Returned) =>
         LET base == IF Oversized \/ ~fs[0].ex THEN <<>> ELSE fs[0].data
             rec == fs'[0].data[Len(fs'[0].data)]
         IN  /\ fs'[0].ex
             /\ Len(fs'[0].data) = Len(base) + 1
             /\ SubSeq(fs'[0].data, 1, Len(base)) = base
             /\ rec.msg = last'.msg
             /\ rec.name = name
             /\ \A i \in 0..FsMax : \A k \in 1..Len(fs[i].data) :
                    fs[i].data[k] # rec
             /\ \A i \in Backups :
                    fs'[i].ex => \E j \in 0..FsMax : fs[j].ex /\ fs'[i] = fs[j]]_vars

C3_Witness ==
    /\ last.outcome = "returned"
    /\ last.msg = "a | b"
    /\ last.pre[0].ex
    /\ Len(fs[0].data) = Len(last.pre[0].data) + 1
    /\ Len(fs[0].data) >= 2

\* C4: no public operation ever panics or raises, whatever filesystem step
\* fails.
C4_NeverPanics == last.outcome # "panic"

\* C5: a write that finds the active file missing or strictly below
\* maxBytes performs no rotation: no backup is created, renamed or changed.
C5_NoRotationBelowMax ==
    [][(IsCall /\ (~fs[0].ex \/ FileLen(fs[0].data) < max_bytes))
         => \A i \in Backups : fs'[i] = fs[i]]_vars

C5_Witness ==
    /\ last.outcome = "returned"
    /\ last.pre[0].ex
    /\ FileLen(last.pre[0].data) < max_bytes
    /\ fs[1].ex
    /\ \A i \in Backups : fs[i] = last.pre[i]

\* the records of a file, as a set
Lines(file) == {file.data[k] : k \in 1..Len(file.data)}

\* C6: an accepted write that finds the active file at or above maxBytes,
\* with backupCount >= 2 and no failure, leaves the old active content in
\* path.1, the old path.i in path.(i+1) for every existing i below
\* backupCount, keeps absent every backup that was absent and received
\* nothing, and leaves only the new line in the active file.
C6_RotationShiftsBackups ==
    [][(IsCall /\ Returned /\ Oversized /\ backup_count >= 2) =>
         /\ fs'[1] = fs[0]
         /\ \A i \in 1..(backup_count - 1) : fs[i].ex => fs'[i + 1] = fs[i]
         /\ \A j \in Backups :
                (~fs[j].ex /\ j # 1 /\ ~(j - 1 \in 1..(backup_count - 1) /\ fs[j - 1].ex))
                    => ~fs'[j].ex
         /\ fs'[0].ex
         /\ Len(fs'[0].data) = 1
         /\ fs'[0].data[1].msg = last'.msg
         /\ fs'[0].data[1] \notin UNION {Lines(fs[i]) : i \in 0..FsMax}]_vars

C6_Witness ==
    /\ last.outcome = "returned"
    /\ backup_count >= 3
    /\ last.pre[0].ex /\ FileLen(last.pre[0].data) = max_bytes /\ max_bytes > 0
    /\ last.pre[1].ex /\ last.pre[2].ex /\ ~last.pre[3].ex
    /\ fs[1] = last.pre[0] /\ fs[2] = last.pre[1] /\ fs[3] = last.pre[2]

\* C7: with backupCount = N >= 1, the content moved away by the first
\* rotation sits in path.k after k <= N rotations and after N+1 rotations
\* none of its lines is in the active file or in any backup.
C7_OldestBackupDropped ==
    backup_count >= 1 =>
        /\ rotations \in 1..backup_count => fs[rotations] = first_rot
        /\ rotations >= backup_count + 1 =>
               /\ Lines(first_rot) # {}
               /\ \A i \in 0..FsMax : Lines(fs[i]) \cap Lines(first_rot) = {}

C7_Witness ==
    /\ backup_count = 2
    /\ rotations = backup_count + 1
    /\ last.pre[2] = first_rot
    /\ \A i \in 0..FsMax : fs[i] # first_rot

\* C8: whatever backupCount the constructor was given (0 and 1 included),
\* there are never more than backupCount backups and none above index
\* backupCount.
C8_AtMostBackupCountBackups ==
    /\ Cardinality({i \in Backups : fs[i].ex}) <= backup_count
    /\ \A k \in Backups : k > backup_count => ~fs[k].ex

\* C9: without failures the existing backup indices are exactly 1..k for
\* some k <= backupCount.
C9_BackupsContiguous ==
    \E k \in 0..backup_count : {i \in Backups : fs[i].ex} = 1..k

\* C10 as stated: after every completed accepted write the active file
\* exists and its last line is the most recently accepted message, and
\* every line of path.1 was written before every line of the active file.
ActiveIsNewest ==
    /\ fs[0].ex
    /\ Len(fs[0].data) >= 1
    /\ fs[0].data[Len(fs[0].data)].n = seq
    /\ fs[0].data[Len(fs[0].data)].msg = last.msg
    /\ fs[1].ex => \A a \in Lines(fs[1]), b \in Lines(fs[0]) : a.n < b.n

Eighty(rec) == LineLen(rec) = 80 /\ rec.level = <<"I","N","F","O">>
\* the configuration of the scenario and its first k calls, all accepted
\* INFO writes of 80 bytes
Scenario(k) ==
    /\ max_bytes = 100 /\ backup_count = 2 /\ Severity(level_arg) = 1
    /\ calls = k /\ Len(log) = k
    /\ \A j \in 1..k : Eighty(log[j])

\* C11 as stated: in the scenario the second 80-byte INFO write rotates:
\* path.1 holds the first line and the active file only the second.
C11_SecondWriteRotates ==
    Scenario(2) => fs[1] = File(<<log[1]>>) /\ fs[0] = File(<<log[2]>>)

\* C11, amended: the first write leaves 80 bytes and no backup, the second
\* finds 80 < 100 and appends (160 bytes, still no backup), and it is the
\* third accepted write that rotates: path.1 holds the first two lines and
\* the active file only the third.
C11_ThirdWriteRotates ==
    /\ Scenario(1) => /\ fs[0] = File(<<log[1]>>)
                      /\ FileLen(fs[0].data) = 80
                      /\ \A i \in Backups : ~fs[i].ex
    /\ Scenario(2) => /\ fs[0] = File(<<log[1], log[2]>>)
                      /\ FileLen(fs[0].data) = 160
                      /\ \A i \in Backups : ~fs[i].ex
    /\ (calls = 3 /\ Len(log) = 3 /\ max_bytes = 100 /\ backup_count = 2
          /\ Eighty(log[1]) /\ Eighty(log[2]))
         => /\ fs[1] = File(<<log[1], log[2]>>)
            /\ fs[0] = File(<<log[3]>>)
            /\ \A i \in 2..FsMax : ~fs[i].ex

C11_Witness ==
    /\ calls = 3 /\ Len(log) = 3 /\ max_bytes = 100 /\ backup_count = 2
    /\ Eighty(log[1]) /\ Eighty(log[2])
    /\ FileLen(last.pre[0].data) = 160
    /\ fs[1] = last.pre[0]

\* the string is one of the four level names in some spelling
IsLevelName(s) ==
    \E nm \in { <<"d","e","b","u","g">>, <<"i","n","f","o">>,
                <<"w","a","r","n","i","n","g">>, <<"e","r","r","o","r">> } :
        EqIgnoreCase(s, nm)

\* C12: a write whose level string is none of the four names is accepted
\* iff minLevel <= INFO, and every accepted line carries the caller's level
\* string exactly as given, unknown or in another case, in the file and on
\* standard output.
C12_UnknownLevelVerbatim ==
    [][IsCall =>
         /\ ~IsLevelName(last'.level_str)
              => (Accepted <=> Severity(level_arg) <= 1)
         /\ Returned =>
              /\ fs'[0].data[Len(fs'[0].data)].level = last'.level_str
              /\ show_output => stdout'[Len(stdout')].level = last'.level_str]_vars

C12_Witness ==
    /\ last.outcome = "returned"
    /\ last.level_str = <<"T","R","A","C","E">>
    /\ Severity(level_arg) = 1
    /\ show_output
    /\ fs[0].data[Len(fs[0].data)].level = <<"T","R","A","C","E">>
    /\ stdout[Len(stdout)].level = <<"T","R","A","C","E">>

\* C13: with showOutput set, standard output is the in-order sequence of
\* all accepted lines, whether the append succeeded or failed and also when
\* the active file could not be opened.
C13_StdoutIsAcceptedLines == show_output => stdout = log

\* C14: with showOutput false nothing is ever emitted on standard output,
\* whatever calls were made, accepted or suppressed, rotating or not.
C14_SilentWithoutShowOutput == ~show_output => stdout = <<>>

C14_Witness ==
    /\ ~show_output
    /\ rotations >= 1
    /\ Len(log) >= 2
    /\ last.outcome = "suppressed"
    /\ last.method = "debug"
    /\ stdout = <<>>

\* an accepted call that finds the active file oversized and whose rename
\* of the active file to path.1 fails
FailedRotation == IsCall /\ Accepted /\ Oversized /\ last'.faults.ren = {0}
\* the write goes through: the oversized file keeps its content and gains
\* the line
StillAppended ==
    /\ Returned
    /\ fs'[0] = File(Append(fs[0].data, log'[Len(log')]))
\* a later accepted call on the oversized file whose steps all succeed
\* rotates it
LaterRotation ==
    (IsCall /\ Accepted /\ Oversized /\ last'.faults = NoFault)
        => fs'[1] = fs[0] /\ Len(fs'[0].data) = 1

BothRotated ==
    /\ \A w \in Writers : wr[w].over /\ wr[w].renamed
    /\ wr[1].saw = wr[2].saw
\* the lines written by the two concurrent calls
NewLines == UNION {{wr[w].line[k] : k \in 1..Len(wr[w].line)} : w \in Writers}

\* C16: two concurrent calls can both find the same file oversized and both
\* do the rotation renames, so that the one threshold crossing shifts the
\* chain twice.  With backupCount >= 2, once both have renamed, path.1
\* holds the oversized file (the second rename found nothing to move), or
\* is absent, or holds a file made by one of the two calls; the oversized
\* file is never in both path.1 and path.2 and never beyond path.2.
C16_DoubleRotation ==
    (BothRotated /\ backup_count >= 2) =>
        /\ fs[1] = wr[1].saw \/ ~fs[1].ex \/ Lines(fs[1]) \subseteq NewLines
        /\ fs[2] = wr[1].saw => fs[1] # wr[1].saw
        /\ \A i \in 3..FsMax : fs[i] # wr[1].saw

C16_Witness ==
    /\ BothRotated
    /\ backup_count >= 2
    /\ wr[1].saw.ex /\ FileLen(wr[1].saw.data) >= max_bytes /\ max_bytes > 0
    /\ fs[2] = wr[1].saw
    /\ ~fs[1].ex
    /\ \A w \in Writers : wr[w].pc = "returned"

\* the line of a returned concurrent call is in no file
Lost(w) ==
    /\ wr[w].pc = "returned"
    /\ \A i \in 0..FsMax : wr[w].line[1] \notin Lines(fs[i])
BothReturned == \A w \in Writers : wr[w].pc = "returned"

C18_ZeroMaxRotatesEveryWrite ==
    [][(max_bytes = 0 /\ IsCall /\ Returned /\ last'.faults = NoFault) =>
          /\ fs[0].ex => (last'.mid[1] = fs[0] /\ ~last'.mid[0].ex
                          /\ fs'[1] = fs[0])
          /\ fs'[0].ex
          /\ fs'[0].data = <<format_line(last'.level_str, last'.msg)>>
          /\ ~faulted' => \A i \in Backups : Len(fs'[i].data) <= 1]_vars

\* a call without failure has just rotated an empty active file
C18_Witness ==
    /\ max_bytes = 0
    /\ last.outcome = "returned"
    /\ last.faults = NoFault
    /\ last.pre[0].ex
    /\ last.pre[0].data = <<>>
    /\ fs[1] = last.pre[0]
    /\ Len(fs[0].data) = 1

\* byte length of the last line of a file, 0 for an empty one
LastLineLen(file) ==
    IF file.data = <<>> THEN 0 ELSE LineLen(file.data[Len(file.data)])

\* the last accepted write appended to a file that was absent or below
\* maxBytes
AppendedBelowMax ==
    ~last.mid[0].ex \/ FileLen(last.mid[0].data) < max_bytes

\* C19 as stated: after an accepted write the active file was absent or
\* below maxBytes when the line was appended, it is now smaller than maxBytes
\* plus its last line (or is exactly that line when the write rotated), and
\* every backup is smaller than maxBytes plus its last line.
C19_SizeBelowMaxPlusLastLine ==
    last.outcome = "returned" =>
        /\ AppendedBelowMax
        /\ \/ FileLen(fs[0].data) < max_bytes + LastLineLen(fs[0])
           \/ /\ last.mid # last.pre
              /\ FileLen(fs[0].data) = LastLineLen(fs[0])
        /\ \A i \in Backups :
              fs[i].ex => FileLen(fs[i].data) < max_bytes + LastLineLen(fs[i])

\* C19, amended: the same bound, except that with maxBytes = 0 a file, active
\* or backup, that holds a single line is exactly as long as that line.
C19_SizeBelowMaxPlusLastLineOrOneLine ==
    last.outcome = "returned" =>
        /\ AppendedBelowMax
        /\ \A i \in 0..FsMax :
              fs[i].ex =>
                 \/ FileLen(fs[i].data) < max_bytes + LastLineLen(fs[i])
                 \/ max_bytes = 0 /\ Len(fs[i].data) = 1

\* with maxBytes = 0 a write has rotated, and the backup it made is exactly
\* as long as its only line
C19_Witness ==
    /\ last.outcome = "returned"
    /\ last.mid # last.pre
    /\ max_bytes = 0
    /\ fs[1].ex
    /\ Len(fs[1].data) = 1
    /\ FileLen(fs[1].data) = max_bytes + LastLineLen(fs[1])

\* the lines of path.i, ..., path.1, path in that order; an absent file
\* contributes nothing
RECURSIVE Concat(_)
Concat(i) ==
    IF i = 0 THEN fs[0].data ELSE fs[i].data \o Concat(i - 1)

Retained == Concat(FsMax)

\* C20: with backupCount >= 1 the lines of path.k, ..., path.1, path in that
\* order are a suffix of the sequence of accepted lines, no line is there
\* twice, every line of path.(i+1) is older than every line of path.i, and
\* lines are missing only when every backup up to backupCount exists.
C20_RetentionOrder ==
    backup_count >= 1 =>
        /\ Len(Retained) <= Len(log)
        /\ Retained = SubSeq(log, Len(log) - Len(Retained) + 1, Len(log))
        /\ \A a \in 1..Len(Retained) : \A b \in 1..Len(Retained) :
              a # b => Retained[a] # Retained[b]
        /\ \A i \in 0..(FsMax - 1) :
              \A x \in Lines(fs[i + 1]) : \A y \in Lines(fs[i]) : x.n < y.n
        /\ Len(Retained) < Len(log) =>
              /\ \A i \in 1..backup_count : fs[i].ex
              /\ fs[0].ex

\* the oldest line has been dropped from a full chain of two or more backups
C20_Witness ==
    /\ backup_count >= 2
    /\ last.outcome = "returned"
    /\ Len(Retained) < Len(log)
    /\ Len(Retained) >= 3
    /\ fs[2].ex

====
